---- MODULE Spec2Model ----
(***************************************************************************)
(* A state-machine model of the ArtnetViz frame sources:                   *)
(*   ArtNetListener        (src/src/artnet_listener.py)                    *)
(*   ArtNetTestSource      (src/src/artnet_test_source.py)                 *)
(*   DMXRecorder playback and ArtNetPlaybackSource (src/src/dmx_recorder.py)*)
(* One source variant is live at a time (variable scene).  The caller      *)
(* thread issues the API calls; every worker thread is a process with a    *)
(* position in its loop.                                                   *)
(***************************************************************************)
EXTENDS Integers, Sequences, FiniteSets, TLC

VARIABLES
    scene,      \* which Frame Source variant is live
    caller,     \* position of the calling (UI) thread
    last,       \* the API call that returned last: name, argument, result
    now,        \* wall clock, in milliseconds
    lst,        \* the ArtNetListener object
    lsockets,   \* the UDP sockets the listener created, "open" or "closed"
    lworkers,   \* the listener threads ever started
    gen,        \* the ArtNetTestSource object
    gworkers,   \* the generator threads ever started
    rec,        \* the DMXRecorder object
    pworkers,   \* the playback threads ever started
    pbs,        \* the ArtNetPlaybackSource object
    rworkers,   \* the record threads ever started
    files       \* the recordings directory: what each path holds

vars == <<scene, caller, last, now, lst, lsockets, lworkers, gen, gworkers,
          rec, pworkers, pbs, rworkers, files>>

lvars == <<lst, lsockets, lworkers>>
gvars == <<gen, gworkers>>
pvars == <<rec, pworkers, pbs, rworkers, files>>
rvars == <<rworkers, files>>

(***************************************************************************)
(* Program constants                                                       *)
(***************************************************************************)
CHANNELS == 512
MIN_PACKET == 18
ARTNET_OPDMX == 20480
ARTNET_HEADER == <<65, 114, 116, 45, 78, 101, 116, 0>>

(***************************************************************************)
(* Bounds of the model                                                     *)
(***************************************************************************)
MaxListLen == 2     \* longest universe list handed to a constructor / set_universes
MaxStarts == 2      \* worker threads one component launches in a run
MaxFrames == 2      \* frames the generator produces in a run
MaxTime == 1        \* last clock reading, in milliseconds
MaxSeekLen == 3     \* frames of the longest recording seek_playback is tried on
MaxTimecode == 3    \* largest timecode and seek target seek_playback is tried on

\* Universe numbers handed to constructors and set_universes (0 is the fallback of
\* an empty list); 256 has a zero low byte, 1 a zero high byte.
UniverseIds == {1, 256}

\* every universe number the model meets
Universes == UniverseIds \cup {0}

(***************************************************************************)
(* Python helpers                                                          *)
(***************************************************************************)
Min(a, b) == IF a <= b THEN a ELSE b

Range(s) == {s[i] : i \in 1..Len(s)}

RECURSIVE Insert(_, _)
Insert(x, s) ==
    IF s = <<>> THEN <<x>>
    ELSE IF x < Head(s) THEN <<x>> \o s
    ELSE <<Head(s)>> \o Insert(x, Tail(s))

\* sorted(list): ascending, keeps repeated elements
RECURSIVE Sorted(_)
Sorted(s) == IF s = <<>> THEN <<>> ELSE Insert(Head(s), Sorted(Tail(s)))

\* np.zeros(512, dtype=np.uint8)
Zeros == [i \in 1..CHANNELS |-> 0]

Fill(n, v) == [i \in 1..n |-> v]

\* data[a:b] on a Python bytes object (0-based, clipped to the length)
Slice(data, a, b) ==
    IF a >= Min(b, Len(data)) THEN <<>> ELSE SubSeq(data, a + 1, Min(b, Len(data)))

\* struct.unpack("<H", ...) and struct.unpack(">H", ...)
UnpackLE(b) == b[1] + 256 * b[2]
UnpackBE(b) == 256 * b[1] + b[2]

\* all lists of universe numbers up to the bound, repeated and unsorted ones included
RECURSIVE ListsOfLen(_)
ListsOfLen(n) ==
    IF n = 0 THEN {<<>>}
    ELSE {<<u>> \o s : u \in UniverseIds, s \in ListsOfLen(n - 1)}

InputLists == UNION {ListsOfLen(n) : n \in 0..MaxListLen}

\* the caller is between two API calls
Idle == caller.pc = "idle"

\* a DMXRecorder is part of the live scene
RecorderLive == scene \in {"playback", "recorder"}

Returned(op, pre, ret) == [op |-> op, pre |-> pre, ret |-> ret]

\* the latest step was no API call returning
NoCall == Returned("none", FALSE, "None")

\* Thread.join(timeout=1.0) of the listener and the generator: returns when the
\* thread has ended, or on the timeout while the thread sits in a blocking
\* receive or in a sleep that may last as long as the timeout (time.sleep(1),
\* time.sleep(1 / fps))
JoinReturns(workers, t) ==
    \/ workers[t].pc = "done"
    \/ workers[t].pc \in {"recv", "sleep"}

\* Thread.join(timeout=2.0) of the recorder: its threads sleep at most 10 ms
\* (min(frame_interval / 4, 0.01)) and never block, so the thread has ended
\* long before the timeout
JoinEnds(workers, t) == workers[t].pc = "done"

\* the last clock reading of a run: a recording of MaxFrames frames takes one
\* frame interval more than the playback of a one-frame recording
ClockEnd == IF scene = "recorder" THEN MaxTime + 1 ELSE MaxTime

\* the wall clock advances
Tick ==
    /\ RecorderLive \/ scene = "generator"
    /\ now < ClockEnd
    /\ now' = now + 1
    /\ last' = NoCall
    /\ UNCHANGED <<scene, caller, lvars, gvars, pvars>>

(***************************************************************************)
(* Art-Net datagrams                                                       *)
(***************************************************************************)
\* an ArtDmx datagram as a sender lays it out
ArtDmx(sig, oplo, ophi, universe, length, payload) ==
    sig \o <<oplo, ophi>> \o <<0, 14>> \o <<0, 0>>
        \o <<universe % 256, universe \div 256>>
        \o <<length \div 256, length % 256>> \o payload

Dmx(universe, length, payload) == ArtDmx(ARTNET_HEADER, 0, 80, universe, length, payload)

ValidDatagrams ==
    {Dmx(u, CHANNELS, Fill(CHANNELS, 1)) : u \in Universes}
    \cup {Dmx(0, 0, <<>>),                  \* length field 0
          Dmx(1, 2, <<2, 2>>),              \* shorter than 512
          Dmx(1, 2, <<2, 2, 9, 9>>),        \* bytes past the length field
          Dmx(1, CHANNELS, <<2, 2>>),       \* length field past the datagram
          Dmx(256, 513, Fill(513, 3))}      \* longer than 512

InvalidDatagrams ==
    {SubSeq(Dmx(0, 0, <<>>), 1, 17),                                \* 17 bytes
     ArtDmx(<<65, 114, 116, 45, 78, 101, 116, 1>>, 0, 80, 0, CHANNELS, Fill(CHANNELS, 1)),
     ArtDmx(ARTNET_HEADER, 0, 32, 0, CHANNELS, Fill(CHANNELS, 1)),  \* ArtPoll 0x2000
     ArtDmx(ARTNET_HEADER, 80, 0, 0, CHANNELS, Fill(CHANNELS, 1))}  \* opcode bytes swapped

Datagrams == ValidDatagrams \cup InvalidDatagrams

\* the header and opcode tests of _process_packet
Accepted(data) ==
    /\ ~(Len(data) < MIN_PACKET \/ SubSeq(data, 1, 8) # ARTNET_HEADER)
    /\ UnpackLE(SubSeq(data, 9, 10)) = ARTNET_OPDMX

(***************************************************************************)
(* ArtNetListener                                                          *)
(***************************************************************************)
\* ArtNetListener.__init__
Listener_init(universes) ==
    LET us == IF universes # <<>> THEN Sorted(universes) ELSE <<0>>
    IN [universes |-> us,
        running |-> FALSE,
        thread |-> 0,
        socket |-> 0,
        buffers |-> [u \in Range(us) |-> Zeros]]

\* A packet processor that skips the opcode test of line 110: every datagram
\* with the signature is decoded as ArtDmx.
Listener_process_packet_any_opcode(l, data) ==
    IF Len(data) < MIN_PACKET \/ SubSeq(data, 1, 8) # ARTNET_HEADER THEN l
    ELSE LET universe == UnpackLE(SubSeq(data, 15, 16))
             length == UnpackBE(SubSeq(data, 17, 18))
         IN IF universe \in Range(l.universes)
            THEN [l EXCEPT !.buffers =
                     [u \in DOMAIN l.buffers \cup {universe} |->
                         IF u = universe THEN Slice(data, 18, 18 + length)
                         ELSE l.buffers[u]]]
            ELSE l

\* A packet processor that copies the payload into the universe's existing array
\* channel by channel and is observed half way through the copy.
Listener_process_packet_in_place(l, data) ==
    IF Len(data) < MIN_PACKET \/ SubSeq(data, 1, 8) # ARTNET_HEADER THEN l
    ELSE IF UnpackLE(SubSeq(data, 9, 10)) # ARTNET_OPDMX THEN l
    ELSE LET universe == UnpackLE(SubSeq(data, 15, 16))
             length == UnpackBE(SubSeq(data, 17, 18))
             dmx_data == Slice(data, 18, 18 + length)
         IN IF universe \in DOMAIN l.buffers
            THEN [l EXCEPT !.buffers[universe] =
                     [i \in 1..Len(l.buffers[universe]) |->
                         IF i <= Len(dmx_data) \div 2 THEN dmx_data[i]
                         ELSE l.buffers[universe][i]]]
            ELSE l

\* ArtNetListener._process_packet: the buffers after the datagram is processed
Listener_process_packet(l, data) ==
    IF Len(data) < MIN_PACKET \/ SubSeq(data, 1, 8) # ARTNET_HEADER THEN l
    ELSE IF UnpackLE(SubSeq(data, 9, 10)) # ARTNET_OPDMX THEN l
    ELSE LET universe == UnpackLE(SubSeq(data, 15, 16))
             length == UnpackBE(SubSeq(data, 17, 18))
         IN IF universe \in Range(l.universes)
            THEN [l EXCEPT !.buffers =
                     [u \in DOMAIN l.buffers \cup {universe} |->
                         IF u = universe THEN Slice(data, 18, 18 + length)
                         ELSE l.buffers[u]]]
            ELSE l

\* dict.get(universe, np.zeros(512)) as every variant's get_buffer uses it
get_buffer(src, universe) ==
    IF universe \in DOMAIN src.buffers THEN src.buffers[universe] ELSE Zeros

\* get_all_buffers of every variant
get_all_buffers(src) ==
    [i \in 1..Len(src.universes) |-> get_buffer(src, src.universes[i])]

\* set_universes of ArtNetListener and ArtNetPlaybackSource: the object afterwards
set_universes(src, arg) ==
    LET universes == Sorted(IF arg = <<>> THEN <<0>> ELSE arg)
    IN IF src.universes = universes THEN src
       ELSE [src EXCEPT
               !.buffers = [u \in Range(universes) |->
                               IF u \in DOMAIN src.buffers THEN src.buffers[u] ELSE Zeros],
               !.universes = universes]

set_universes_result(src, arg) ==
    LET universes == Sorted(IF arg = <<>> THEN <<0>> ELSE arg)
    IN IF src.universes = universes THEN "False" ELSE "True"

\* A start without the early return of line 129: it opens a socket and
\* launches a thread whether or not the listener runs.
Listener_start_without_guard ==
    /\ scene = "listener" /\ Idle
    /\ Len(lworkers) < MaxStarts
    /\ lsockets' = Append(lsockets, "open")
    /\ lworkers' = Append(lworkers, [pc |-> "loop", sock |-> 0])
    /\ lst' = [lst EXCEPT !.socket = Len(lsockets) + 1,
                          !.running = TRUE,
                          !.thread = Len(lworkers) + 1]
    /\ last' = Returned("Listener.start", lst.running, "None")
    /\ UNCHANGED <<scene, caller, now, gvars, pvars>>

\* ArtNetListener.start
Listener_start ==
    /\ scene = "listener" /\ Idle
    /\ IF lst.running
       THEN /\ UNCHANGED lvars
            /\ last' = Returned("Listener.start", TRUE, "None")
       ELSE /\ Len(lworkers) < MaxStarts
            /\ lsockets' = Append(lsockets, "open")
            /\ lworkers' = Append(lworkers, [pc |-> "loop", sock |-> 0])
            /\ lst' = [lst EXCEPT !.socket = Len(lsockets) + 1,
                                  !.running = TRUE,
                                  !.thread = Len(lworkers) + 1]
            /\ last' = Returned("Listener.start", FALSE, "None")
    /\ UNCHANGED <<scene, caller, now, gvars, pvars>>

\* ArtNetListener.stop up to the join
Listener_stop ==
    /\ scene = "listener" /\ Idle
    /\ IF lst.thread # 0
       THEN /\ lst' = [lst EXCEPT !.running = FALSE]
            /\ lsockets' = IF lst.socket # 0
                           THEN [lsockets EXCEPT ![lst.socket] = "closed"]
                           ELSE lsockets
            /\ caller' = [pc |-> "Listener.stop", pre |-> lst.running]
            /\ UNCHANGED last
       ELSE /\ lst' = [lst EXCEPT !.running = FALSE]
            /\ last' = Returned("Listener.stop", lst.running, "None")
            /\ UNCHANGED <<lsockets, caller>>
    /\ UNCHANGED <<scene, now, lworkers, gvars, pvars>>

\* ArtNetListener.stop from the join on
Listener_stop_join ==
    /\ scene = "listener" /\ caller.pc = "Listener.stop"
    /\ JoinReturns(lworkers, lst.thread)
    /\ lst' = [lst EXCEPT !.thread = 0]
    /\ caller' = [pc |-> "idle"]
    /\ last' = Returned("Listener.stop", caller.pre, "None")
    /\ UNCHANGED <<scene, now, lsockets, lworkers, gvars, pvars>>

\* ArtNetListener.set_universes
Listener_set_universes(arg) ==
    /\ scene = "listener" /\ Idle
    /\ lst' = set_universes(lst, arg)
    /\ last' = Returned("Listener.set_universes", lst.running,
                        set_universes_result(lst, arg))
    /\ UNCHANGED <<scene, caller, now, lsockets, lworkers, gvars, pvars>>

\* _listener_thread: the test of the while loop, then the call of recvfrom
Listener_thread_loop(t) ==
    /\ scene = "listener"
    /\ lworkers[t].pc = "loop"
    /\ IF lst.running
       THEN IF lsockets[lst.socket] = "open"
            THEN lworkers' = [lworkers EXCEPT ![t] = [pc |-> "recv", sock |-> lst.socket]]
            \* recvfrom on a closed socket object raises OSError at once
            ELSE lworkers' = [lworkers EXCEPT ![t] = [pc |-> "sleep", sock |-> 0]]
       ELSE lworkers' = [lworkers EXCEPT ![t] = [pc |-> "done", sock |-> 0]]
    /\ last' = NoCall
    /\ UNCHANGED <<scene, caller, now, lst, lsockets, gvars, pvars>>

\* _listener_thread: recvfrom returns a datagram, _process_packet handles it.
\* A receive that was pending when the socket was closed may still complete:
\* whether close() wakes a blocked recvfrom depends on the platform.
Listener_thread_recv(t, data) ==
    /\ scene = "listener"
    /\ lworkers[t].pc = "recv"
    /\ lst' = Listener_process_packet(lst, data)
    /\ lworkers' = [lworkers EXCEPT ![t] = [pc |-> "loop", sock |-> 0]]
    /\ last' = Returned("packet", lst.running,
                        IF Accepted(data) THEN "accepted" ELSE "dropped")
    /\ UNCHANGED <<scene, caller, now, lsockets, gvars, pvars>>

\* _listener_thread: recvfrom raises OSError because the socket was closed
Listener_thread_oserror(t) ==
    /\ scene = "listener"
    /\ lworkers[t].pc = "recv"
    /\ lsockets[lworkers[t].sock] = "closed"
    /\ lworkers' = [lworkers EXCEPT ![t] =
                       [pc |-> IF lst.running THEN "sleep" ELSE "loop", sock |-> 0]]
    /\ last' = NoCall
    /\ UNCHANGED <<scene, caller, now, lst, lsockets, gvars, pvars>>

\* _listener_thread: time.sleep(1) after a socket error is over
Listener_thread_wake(t) ==
    /\ scene = "listener"
    /\ lworkers[t].pc = "sleep"
    /\ lworkers' = [lworkers EXCEPT ![t] = [pc |-> "loop", sock |-> 0]]
    /\ last' = NoCall
    /\ UNCHANGED <<scene, caller, now, lst, lsockets, gvars, pvars>>

\* _process_packet up to the test `universe in self.universes` (line 120): the
\* thread has received the datagram and decided whether it will store it
Listener_thread_check(t, data) ==
    /\ scene = "listener"
    /\ lworkers[t].pc = "recv"
    /\ IF Accepted(data) /\ UnpackLE(SubSeq(data, 15, 16)) \in Range(lst.universes)
       THEN lworkers' = [lworkers EXCEPT ![t] = [pc |-> "store", sock |-> 0, data |-> data]]
       ELSE lworkers' = [lworkers EXCEPT ![t] = [pc |-> "loop", sock |-> 0]]
    /\ last' = NoCall
    /\ UNCHANGED <<scene, caller, now, lst, lsockets, gvars, pvars>>

\* _process_packet from line 122 on: the assignment to self.buffers[universe],
\* made after other threads had the chance to run
Listener_thread_store(t) ==
    /\ scene = "listener"
    /\ lworkers[t].pc = "store"
    /\ LET data == lworkers[t].data
           universe == UnpackLE(SubSeq(data, 15, 16))
           length == UnpackBE(SubSeq(data, 17, 18))
       IN lst' = [lst EXCEPT !.buffers =
                     [u \in DOMAIN lst.buffers \cup {universe} |->
                         IF u = universe THEN Slice(data, 18, 18 + length)
                         ELSE lst.buffers[u]]]
    /\ lworkers' = [lworkers EXCEPT ![t] = [pc |-> "loop", sock |-> 0]]
    /\ last' = Returned("packet", lst.running, "accepted")
    /\ UNCHANGED <<scene, caller, now, lsockets, gvars, pvars>>

\* the listener with _process_packet taken in two steps, so that a caller's
\* set_universes can run between the membership test and the assignment
NextInterleaved ==
    \/ Listener_start
    \/ Listener_stop
    \/ Listener_stop_join
    \/ \E arg \in InputLists : Listener_set_universes(arg)
    \/ \E t \in DOMAIN lworkers : Listener_thread_loop(t)
    \/ \E t \in DOMAIN lworkers, data \in Datagrams : Listener_thread_check(t, data)
    \/ \E t \in DOMAIN lworkers : Listener_thread_store(t)
    \/ \E t \in DOMAIN lworkers : Listener_thread_oserror(t)
    \/ \E t \in DOMAIN lworkers : Listener_thread_wake(t)

NextListener ==
    \/ Listener_start
    \/ Listener_stop
    \/ Listener_stop_join
    \/ \E arg \in InputLists : Listener_set_universes(arg)
    \/ \E t \in DOMAIN lworkers : Listener_thread_loop(t)
    \/ \E t \in DOMAIN lworkers, data \in Datagrams : Listener_thread_recv(t, data)
    \/ \E t \in DOMAIN lworkers : Listener_thread_oserror(t)
    \/ \E t \in DOMAIN lworkers : Listener_thread_wake(t)

(***************************************************************************)
(* ArtNetTestSource                                                        *)
(***************************************************************************)
\* the members of PatternType the model generates
PatternTypes == {"GRADIENT_H", "GRADIENT_V"}

\* ArtNetTestSource.__init__
TestSource_init(universes, pattern_type) ==
    LET us == IF universes # <<>> THEN Sorted(universes) ELSE <<0>>
    IN [universes |-> us,
        pattern_type |-> pattern_type,
        fps |-> 44,
        speed |-> "1.0",
        running |-> FALSE,
        thread |-> 0,
        buffers |-> [u \in Range(us) |-> Zeros],
        frame_counter |-> 0]

\* the last position of universe u in the list: the write that enumerate() makes last
LastIndex(us, u) == CHOOSE i \in 1..Len(us) : us[i] = u /\ \A j \in (i + 1)..Len(us) : us[j] # u

\* _generate_horizontal_gradient: int((i / 511) * 255) for i in range(512)
generate_horizontal_gradient(g) ==
    [g EXCEPT !.buffers =
        [u \in DOMAIN g.buffers \cup Range(g.universes) |->
            IF u \in Range(g.universes)
            THEN [i \in 1..CHANNELS |-> ((i - 1) * 255) \div 511]
            ELSE g.buffers[u]]]

\* _generate_vertical_gradient: one value per universe, by its rank in the list
generate_vertical_gradient(g) ==
    LET n == Len(g.universes)
        value(universe_idx) == IF n > 1 THEN (universe_idx * 255) \div (n - 1) ELSE 0
    IN [g EXCEPT !.buffers =
        [u \in DOMAIN g.buffers \cup Range(g.universes) |->
            IF u \in Range(g.universes)
            THEN Fill(CHANNELS, value(LastIndex(g.universes, u) - 1))
            ELSE g.buffers[u]]]

\* _generate_pattern
generate_pattern(g) ==
    IF g.pattern_type = "GRADIENT_H" THEN generate_horizontal_gradient(g)
    ELSE IF g.pattern_type = "GRADIENT_V" THEN generate_vertical_gradient(g)
    ELSE g

\* the frame rates the generator is given: frame intervals of two and of one
\* clock unit (a millisecond)
FpsValues == {500, 1000}

\* the frame rate the generator is constructed with
GeneratorFps == 1000

\* 1.0 / self.fps, in milliseconds
pattern_interval(g) == 1000 \div g.fps

\* the speeds the generator is given, by their repr: the default, and a value
\* that is no number
SpeedValues == {"1.0", "None"}

\* ArtNetTestSource.set_speed
TestSource_set_speed(speed) ==
    /\ scene = "generator" /\ Idle
    /\ gen' = [gen EXCEPT !.speed = speed]
    /\ last' = Returned("TestSource.set_speed", gen.running, "None")
    /\ UNCHANGED <<scene, caller, now, gworkers, lvars, pvars>>

\* ArtNetTestSource.set_fps
TestSource_set_fps(fps) ==
    /\ scene = "generator" /\ Idle
    /\ gen' = [gen EXCEPT !.fps = fps]
    /\ last' = Returned("TestSource.set_fps", gen.running, "None")
    /\ UNCHANGED <<scene, caller, now, gworkers, lvars, pvars>>

\* ArtNetTestSource.set_pattern
TestSource_set_pattern(pattern_type) ==
    /\ scene = "generator" /\ Idle
    /\ gen' = [gen EXCEPT !.pattern_type = pattern_type]
    /\ last' = Returned("TestSource.set_pattern", gen.running, "None")
    /\ UNCHANGED <<scene, caller, now, gworkers, lvars, pvars>>

\* MainWindow._update_universes with a generator as the frame source:
\* ArtNetTestSource defines no set_universes, the hasattr test of main.py:3022
\* fails and the requested list is dropped
MainWindow_update_universes(universes) ==
    /\ scene = "generator" /\ Idle
    /\ last' = Returned("MainWindow._update_universes", gen.running, "skipped")
    /\ UNCHANGED <<scene, caller, now, gen, gworkers, lvars, pvars>>

\* ArtNetTestSource.start
TestSource_start ==
    /\ scene = "generator" /\ Idle
    /\ IF gen.running
       THEN /\ UNCHANGED gvars
            /\ last' = Returned("TestSource.start", TRUE, "None")
       ELSE /\ Len(gworkers) < MaxStarts
            /\ gworkers' = Append(gworkers, [pc |-> "begin", interval |-> 0, next_time |-> 0])
            /\ gen' = [gen EXCEPT !.running = TRUE, !.thread = Len(gworkers) + 1]
            /\ last' = Returned("TestSource.start", FALSE, "None")
    /\ UNCHANGED <<scene, caller, now, lvars, pvars>>

\* A stop that joins the thread but leaves the running flag of line 234 set.
TestSource_stop_keeps_running ==
    /\ scene = "generator" /\ Idle
    /\ UNCHANGED gen
    /\ IF gen.thread # 0
       THEN /\ caller' = [pc |-> "TestSource.stop", pre |-> gen.running]
            /\ UNCHANGED last
       ELSE /\ last' = Returned("TestSource.stop", gen.running, "None")
            /\ UNCHANGED caller
    /\ UNCHANGED <<scene, now, gworkers, lvars, pvars>>

\* ArtNetTestSource.stop up to the join
TestSource_stop ==
    /\ scene = "generator" /\ Idle
    /\ gen' = [gen EXCEPT !.running = FALSE]
    /\ IF gen.thread # 0
       THEN /\ caller' = [pc |-> "TestSource.stop", pre |-> gen.running]
            /\ UNCHANGED last
       ELSE /\ last' = Returned("TestSource.stop", gen.running, "None")
            /\ UNCHANGED caller
    /\ UNCHANGED <<scene, now, gworkers, lvars, pvars>>

\* ArtNetTestSource.stop from the join on
TestSource_stop_join ==
    /\ scene = "generator" /\ caller.pc = "TestSource.stop"
    /\ JoinReturns(gworkers, gen.thread)
    /\ gen' = [gen EXCEPT !.thread = 0]
    /\ caller' = [pc |-> "idle"]
    /\ last' = Returned("TestSource.stop", caller.pre, "None")
    /\ UNCHANGED <<scene, now, gworkers, lvars, pvars>>

\* a pattern thread whose function has returned: its locals are gone
PatternEnded == [pc |-> "done", interval |-> 0, next_time |-> 0]

\* _pattern_thread: interval = 1.0 / self.fps; next_time = time.time() + interval
TestSource_thread_begin(t) ==
    /\ scene = "generator"
    /\ gworkers[t].pc = "begin"
    /\ gworkers' = [gworkers EXCEPT ![t] = [pc |-> "loop",
                                            interval |-> pattern_interval(gen),
                                            next_time |-> now + pattern_interval(gen)]]
    /\ last' = NoCall
    /\ UNCHANGED <<scene, caller, now, gen, lvars, pvars>>

\* _pattern_thread: the test of the while loop and one frame, up to the sleep;
\* next_time, the time the sleep of this pass ends, is assigned after the sleep
\* from the clock reading made before it. _generate_pattern begins with
\* t = self.frame_counter * self.speed * 0.05, which raises TypeError when the
\* speed is None; nothing in the thread function catches it.
TestSource_thread_loop(t) ==
    /\ scene = "generator"
    /\ gworkers[t].pc = "loop"
    /\ IF gen.running /\ gen.speed = "None"
       THEN /\ gworkers' = [gworkers EXCEPT ![t] = PatternEnded]
            /\ UNCHANGED gen
       ELSE IF gen.running
       THEN /\ gen.frame_counter < MaxFrames
            /\ gen' = [generate_pattern(gen) EXCEPT !.frame_counter = gen.frame_counter + 1]
            /\ LET sleep_time == gworkers[t].next_time - now
               IN gworkers' = [gworkers EXCEPT
                      ![t].pc = IF sleep_time > 0 THEN "sleep" ELSE "loop",
                      ![t].next_time = now + gworkers[t].interval]
       ELSE /\ gworkers' = [gworkers EXCEPT ![t] = PatternEnded]
            /\ UNCHANGED gen
    /\ last' = NoCall
    /\ UNCHANGED <<scene, caller, now, lvars, pvars>>

\* _pattern_thread: time.sleep(sleep_time) is over: the clock has reached the
\* next_time the sleep was computed from, which the pass before set to its own
\* clock reading plus the interval
TestSource_thread_wake(t) ==
    /\ scene = "generator"
    /\ gworkers[t].pc = "sleep"
    /\ now >= gworkers[t].next_time
    /\ gworkers' = [gworkers EXCEPT ![t].pc = "loop"]
    /\ last' = NoCall
    /\ UNCHANGED <<scene, caller, now, gen, lvars, pvars>>

NextGenerator ==
    \/ TestSource_start
    \/ TestSource_stop
    \/ TestSource_stop_join
    \/ \E p \in PatternTypes : TestSource_set_pattern(p)
    \/ \E fps \in FpsValues : TestSource_set_fps(fps)
    \/ \E universes \in InputLists : MainWindow_update_universes(universes)
    \/ \E t \in DOMAIN gworkers : TestSource_thread_begin(t)
    \/ \E t \in DOMAIN gworkers : TestSource_thread_loop(t)
    \/ \E t \in DOMAIN gworkers : TestSource_thread_wake(t)
    \/ Tick

(***************************************************************************)
(* Recording files                                                         *)
(***************************************************************************)
\* str(universe) of the keys of a frame's data, and int(universe_str) back
UniverseStr == [u \in Universes |-> IF u = 0 THEN "0" ELSE IF u = 1 THEN "1" ELSE "256"]
ParseInt(str) == CHOOSE u \in Universes : UniverseStr[u] = str

\* one frame as _record_thread writes it
Frame(timecode, frame, universes, v) ==
    [timecode |-> timecode, frame |-> frame,
     data |-> [k \in {UniverseStr[u] : u \in universes} |-> Fill(CHANNELS, v)]]

Recording(universes, frames) ==
    [metadata |-> [timestamp |-> "20240101_000000", frame_rate |-> 44,
                   universes |-> universes, frame_count |-> Len(frames), duration |-> 1],
     frames |-> frames]

\* datetime.now().strftime("%Y%m%d_%H%M%S"): every clock reading of a run lies in
\* the same second
Timestamp == "20240101_000000"

\* os.path.join(self.recording_dir, f"dmx_recording_{timestamp}.json")
RecordingPath(timestamp) == "recordings/dmx_recording_20240101_000000.json"

\* the paths the playback source's recorder is asked to load
FilePaths == {"a.json", "c.json", "d.json", "missing.json"}

\* the paths a recorder used on its own is asked to load
RecorderPaths == {"b.json", "d.json", RecordingPath(Timestamp)}

\* the recordings directory at the start: what open() and json.load() give for
\* each path
Disk ==
    [filepath \in FilePaths \cup RecorderPaths |->
        IF filepath = "a.json"
        THEN [kind |-> "json", doc |-> Recording(<<0, 1>>, <<Frame(1, 0, {0, 1}, 5)>>)]
        ELSE IF filepath = "b.json"
        THEN [kind |-> "json",
              doc |-> Recording(<<1>>, <<Frame(0, 0, {1}, 5), Frame(1, 1, {1}, 6)>>)]
        ELSE IF filepath = "c.json"
        THEN [kind |-> "json", doc |-> Recording(<<1, 0, 1>>, <<>>)]
        ELSE IF filepath = "d.json"
        THEN [kind |-> "json", doc |-> Recording(<<>>, <<>>)]
        ELSE [kind |-> "missing"]]

\* the paths load_recording is tried on by itself
LoadPaths == {"x.json", "y.json"}

\* a record without one of its fields
Without(record, field) == [k \in DOMAIN record \ {field} |-> record[k]]

\* what open() and json.load() can give for a path: no file, a file that is not
\* JSON, a document lacking a top-level field or a metadata field that
\* load_recording reads, and a well-formed recording of two frames
LoadContents ==
    LET good == Recording(<<1>>, <<Frame(0, 0, {1}, 5), Frame(1, 1, {1}, 6)>>)
    IN {[kind |-> "missing"],
        [kind |-> "garbage"],
        [kind |-> "json", doc |-> Without(good, "metadata")],
        [kind |-> "json", doc |-> Without(good, "frames")],
        [kind |-> "json",
         doc |-> [good EXCEPT !.metadata = Without(good.metadata, "universes")]],
        [kind |-> "json",
         doc |-> [good EXCEPT !.metadata = Without(good.metadata, "frame_rate")]],
        [kind |-> "json", doc |-> good]}

\* the universe lists handed to the playback source's set_universes
PlaybackLists == {<<>>, <<256, 1>>, <<1, 0>>}

(***************************************************************************)
(* DMXRecorder (playback side) and ArtNetPlaybackSource                    *)
(***************************************************************************)
\* Python's None where an object is expected
None == [none |-> TRUE]

\* DMXRecorder.__init__
Recorder_init ==
    [frame_rate |-> 44,
     recording |-> FALSE,
     playing |-> FALSE,
     playback_thread |-> 0,
     artnet_source |-> None,
     record_thread |-> 0,
     current_recording |-> None,
     current_playback |-> None,
     playback_callback |-> "None",
     playback_universes |-> <<>>,
     frame_count |-> 0,
     start_time |-> 0,
     playback_position |-> 0,
     loop_playback |-> FALSE]

\* ArtNetPlaybackSource.__init__
Playback_init ==
    [universes |-> <<>>,
     buffers |-> [u \in {} |-> Zeros],
     running |-> FALSE,
     fps |-> 44]

\* A load_recording without its try/except: a failing open(), json.load() or
\* key lookup leaves the method as an exception.
load_recording_uncaught(r, filepath) ==
    LET file == files[filepath] IN
    IF file.kind # "json" THEN [rec |-> r, ret |-> "raise"]
    ELSE LET recording == file.doc IN
    IF ~({"metadata", "frames"} \subseteq DOMAIN recording) THEN [rec |-> r, ret |-> "False"]
    ELSE LET r1 == [r EXCEPT !.current_playback = recording] IN
    IF "universes" \notin DOMAIN recording.metadata THEN [rec |-> r1, ret |-> "raise"]
    ELSE LET r2 == [r1 EXCEPT
                      !.playback_universes = [i \in 1..Len(recording.metadata.universes) |->
                                                 recording.metadata.universes[i]],
                      !.playback_position = 0] IN
    IF "frame_rate" \notin DOMAIN recording.metadata THEN [rec |-> r2, ret |-> "raise"]
    ELSE [rec |-> r2, ret |-> "True"]

\* DMXRecorder.load_recording: the recorder afterwards and the result
load_recording(r, filepath) ==
    LET file == files[filepath] IN
    IF file.kind # "json" THEN [rec |-> r, ret |-> "False"]
    ELSE LET recording == file.doc IN
    IF ~({"metadata", "frames"} \subseteq DOMAIN recording) THEN [rec |-> r, ret |-> "False"]
    ELSE LET r1 == [r EXCEPT !.current_playback = recording] IN
    IF "universes" \notin DOMAIN recording.metadata THEN [rec |-> r1, ret |-> "False"]
    ELSE LET r2 == [r1 EXCEPT
                      !.playback_universes = [i \in 1..Len(recording.metadata.universes) |->
                                                 recording.metadata.universes[i]],
                      !.playback_position = 0] IN
    IF "frame_rate" \notin DOMAIN recording.metadata THEN [rec |-> r2, ret |-> "False"]
    ELSE [rec |-> r2, ret |-> "True"]

\* a thread whose function has returned: its locals are gone
Ended == [pc |-> "done", frames |-> <<>>, t0 |-> 0, fresh |-> FALSE]

\* the thread object start_playback creates: _playback_thread reads the frames and
\* the frame rate of the loaded recording before its loop
NewPlaybackThread(r) ==
    IF "frame_rate" \in DOMAIN r.current_playback.metadata
    THEN [pc |-> "loop", frames |-> r.current_playback.frames,
          \* history: when the playback started, and that no pass has run yet
          t0 |-> now, fresh |-> TRUE]
    ELSE Ended

\* DMXRecorder.start_playback past its two guards
start_playback(r, callback, loop, thread) ==
    [r EXCEPT !.playing = TRUE,
              !.playback_callback = callback,
              !.loop_playback = loop,
              !.start_time = now,
              !.playback_thread = thread]

\* ArtNetPlaybackSource._update_buffer
update_buffer(p, universe, dmx_data) ==
    IF universe \in DOMAIN p.buffers
    THEN [p EXCEPT !.buffers = [p.buffers EXCEPT ![universe] = dmx_data]]
    ELSE p

\* A callback loop whose callback stores every universe of the frame, whether
\* or not the source has a buffer for it.
deliver_unguarded(p, frame) ==
    [p EXCEPT !.buffers =
        [u \in DOMAIN p.buffers \cup {v \in Universes : UniverseStr[v] \in DOMAIN frame.data} |->
            IF UniverseStr[u] \in DOMAIN frame.data
            THEN frame.data[UniverseStr[u]]
            ELSE p.buffers[u]]]

\* the callback loop of _playback_thread over frame['data'].items()
deliver(p, frame) ==
    [p EXCEPT !.buffers =
        [u \in DOMAIN p.buffers |->
            IF UniverseStr[u] \in DOMAIN frame.data
            THEN update_buffer(p, ParseInt(UniverseStr[u]), frame.data[UniverseStr[u]]).buffers[u]
            ELSE p.buffers[u]]]

\* ArtNetPlaybackSource.start from "Set universes from playback data" on
Playback_start_rest(p) ==
    LET universes == rec.playback_universes
    IN [p EXCEPT !.universes = universes,
                 !.running = TRUE,
                 !.buffers = [u \in DOMAIN p.buffers \cup Range(universes) |->
                                 IF u \in DOMAIN p.buffers THEN p.buffers[u] ELSE Zeros]]

\* DMXRecorder.load_recording
Recorder_load_recording(filepath) ==
    /\ (RecorderLive \/ scene = "load") /\ Idle
    /\ filepath \in (IF scene = "playback" THEN FilePaths
                     ELSE IF scene = "load" THEN LoadPaths ELSE RecorderPaths)
    /\ rec' = load_recording(rec, filepath).rec
    /\ last' = Returned("Recorder.load_recording", rec.playing,
                        load_recording(rec, filepath).ret)
    /\ UNCHANGED <<scene, caller, now, pworkers, pbs, lvars, gvars, rvars>>

\* A start_playback without the "Already playing" return of lines 191-193.
Recorder_start_playback_while_playing(loop) ==
    /\ scene = "recorder" /\ Idle
    /\ IF rec.current_playback = None
       THEN /\ UNCHANGED <<rec, pworkers>>
            /\ last' = Returned("Recorder.start_playback", rec.playing, "False")
       ELSE /\ Len(rworkers) + Len(pworkers) < MaxStarts
            /\ pworkers' = Append(pworkers, NewPlaybackThread(rec))
            /\ rec' = start_playback(rec, "None", loop, Len(pworkers) + 1)
            /\ last' = Returned("Recorder.start_playback", rec.playing, "True")
    /\ UNCHANGED <<scene, caller, now, pbs, lvars, gvars, rvars>>

\* DMXRecorder.start_playback(loop=loop), called on the recorder itself
Recorder_start_playback(loop) ==
    /\ scene = "recorder" /\ Idle
    /\ IF rec.playing \/ rec.current_playback = None
       THEN /\ UNCHANGED <<rec, pworkers>>
            /\ last' = Returned("Recorder.start_playback", rec.playing, "False")
       ELSE /\ Len(rworkers) + Len(pworkers) < MaxStarts
            /\ pworkers' = Append(pworkers, NewPlaybackThread(rec))
            /\ rec' = start_playback(rec, "None", loop, Len(pworkers) + 1)
            /\ last' = Returned("Recorder.start_playback", FALSE, "True")
    /\ UNCHANGED <<scene, caller, now, pbs, lvars, gvars, rvars>>

\* DMXRecorder.stop_playback up to the join, called on the recorder itself
Recorder_stop_playback ==
    /\ RecorderLive /\ Idle
    /\ IF ~rec.playing
       THEN /\ last' = Returned("Recorder.stop_playback", FALSE, "False")
            /\ UNCHANGED <<rec, caller>>
       ELSE /\ rec' = [rec EXCEPT !.playing = FALSE]
            /\ IF rec.playback_thread # 0
               THEN /\ caller' = [pc |-> "Recorder.stop_playback",
                                  from |-> "Recorder.stop_playback", pre |-> TRUE]
                    /\ UNCHANGED last
               ELSE /\ last' = Returned("Recorder.stop_playback", TRUE, "True")
                    /\ UNCHANGED caller
    /\ UNCHANGED <<scene, now, pworkers, pbs, lvars, gvars, rvars>>

\* ArtNetPlaybackSource.stop up to the join of stop_playback
Playback_stop ==
    /\ scene = "playback" /\ Idle
    /\ IF ~pbs.running
       THEN /\ last' = Returned("Playback.stop", FALSE, "None")
            /\ UNCHANGED <<pbs, rec, caller>>
       ELSE /\ pbs' = [pbs EXCEPT !.running = FALSE]
            /\ IF rec.playing
               THEN /\ rec' = [rec EXCEPT !.playing = FALSE]
                    /\ IF rec.playback_thread # 0
                       THEN /\ caller' = [pc |-> "Recorder.stop_playback",
                                          from |-> "Playback.stop", pre |-> TRUE]
                            /\ UNCHANGED last
                       ELSE /\ last' = Returned("Playback.stop", TRUE, "None")
                            /\ UNCHANGED caller
               ELSE /\ last' = Returned("Playback.stop", TRUE, "None")
                    /\ UNCHANGED <<rec, caller>>
    /\ UNCHANGED <<scene, now, pworkers, lvars, gvars, rvars>>

\* ArtNetPlaybackSource.start up to the join of stop_playback, or to its end
Playback_start ==
    /\ scene = "playback" /\ Idle
    /\ IF rec.current_playback = None
       THEN /\ last' = Returned("Playback.start", pbs.running, "False")
            /\ UNCHANGED <<pbs, rec, pworkers, caller>>
       ELSE IF pbs.running /\ rec.playing /\ rec.playback_thread # 0
       THEN \* self.stop(): stop_playback waits in its join
            /\ pbs' = [pbs EXCEPT !.running = FALSE]
            /\ rec' = [rec EXCEPT !.playing = FALSE]
            /\ caller' = [pc |-> "Recorder.stop_playback",
                          from |-> "Playback.start", pre |-> TRUE]
            /\ UNCHANGED <<last, pworkers>>
       ELSE \* not running, or self.stop() returns at once
            /\ pbs' = Playback_start_rest(pbs)
            /\ IF ~rec.playing
               THEN /\ Len(pworkers) < MaxStarts
                    /\ pworkers' = Append(pworkers, NewPlaybackThread(rec))
                    /\ rec' = start_playback(rec, "update_buffer", FALSE, Len(pworkers) + 1)
               ELSE UNCHANGED <<rec, pworkers>>
            /\ last' = Returned("Playback.start", pbs.running, "True")
            /\ UNCHANGED caller
    /\ UNCHANGED <<scene, now, lvars, gvars, rvars>>

\* stop_playback from its join on, and what the caller of stop_playback does next
Recorder_stop_playback_join ==
    /\ RecorderLive /\ caller.pc = "Recorder.stop_playback"
    /\ JoinEnds(pworkers, rec.playback_thread)
    /\ caller' = [pc |-> "idle"]
    /\ IF caller.from = "Playback.start"
       THEN /\ Len(pworkers) < MaxStarts
            /\ pbs' = Playback_start_rest(pbs)
            /\ pworkers' = Append(pworkers, NewPlaybackThread(rec))
            /\ rec' = start_playback(rec, "update_buffer", FALSE, Len(pworkers) + 1)
            /\ last' = Returned("Playback.start", TRUE, "True")
       ELSE /\ rec' = [rec EXCEPT !.playback_thread = 0]
            /\ last' = Returned(caller.from, TRUE,
                                IF caller.from = "Playback.stop" THEN "None" ELSE "True")
            /\ UNCHANGED <<pbs, pworkers>>
    /\ UNCHANGED <<scene, now, lvars, gvars, rvars>>

\* ArtNetPlaybackSource.set_universes
Playback_set_universes(arg) ==
    /\ scene = "playback" /\ Idle
    /\ pbs' = set_universes(pbs, arg)
    /\ last' = Returned("Playback.set_universes", pbs.running,
                        set_universes_result(pbs, arg))
    /\ UNCHANGED <<scene, caller, now, rec, pworkers, lvars, gvars, rvars>>

\* the latest step was a pass of _playback_thread that emitted a frame, after
\* wrapping to the start of the recording or not
FrameEmitted(wrap) == Returned("frame", wrap, "emitted")

\* A playback loop that stops at the end of the recording whatever loop_playback
\* says.
Playback_thread_loop_never_wraps(t) ==
    /\ RecorderLive
    /\ pworkers[t].pc = "loop"
    /\ LET frames == pworkers[t].frames
       IN IF ~(rec.playing /\ frames # <<>>)
          THEN /\ pworkers' = [pworkers EXCEPT ![t] = Ended]
               /\ last' = NoCall
               /\ UNCHANGED <<rec, pbs>>
          ELSE IF rec.playback_position >= Len(frames)
          THEN /\ rec' = [rec EXCEPT !.playing = FALSE]
               /\ pworkers' = [pworkers EXCEPT ![t] = Ended]
               /\ last' = NoCall
               /\ UNCHANGED pbs
          ELSE LET frame == frames[rec.playback_position + 1]
                   elapsed_ms == now - rec.start_time
               IN /\ IF elapsed_ms >= frame.timecode
                     THEN /\ pbs' = IF rec.playback_callback = "update_buffer"
                                    THEN deliver(pbs, frame) ELSE pbs
                          /\ rec' = [rec EXCEPT !.playback_position = @ + 1]
                          /\ last' = FrameEmitted(FALSE)
                     ELSE /\ last' = NoCall
                          /\ UNCHANGED <<rec, pbs>>
                  /\ pworkers' = [pworkers EXCEPT ![t].pc = "sleep", ![t].fresh = FALSE]
    /\ UNCHANGED <<scene, caller, now, lvars, gvars, rvars>>

\* A playback loop without the test elapsed_ms >= frame['timecode'] of line 275.
Playback_thread_loop_untimed(t) ==
    /\ RecorderLive
    /\ pworkers[t].pc = "loop"
    /\ LET frames == pworkers[t].frames
           wrap == rec.playback_position >= Len(frames) /\ rec.loop_playback
           position == IF wrap THEN 0 ELSE rec.playback_position
           start_time == IF wrap THEN now ELSE rec.start_time
           t0 == IF wrap THEN now ELSE pworkers[t].t0
       IN IF ~(rec.playing /\ frames # <<>>)
          THEN /\ pworkers' = [pworkers EXCEPT ![t] = Ended]
               /\ last' = NoCall
               /\ UNCHANGED <<rec, pbs>>
          ELSE IF rec.playback_position >= Len(frames) /\ ~rec.loop_playback
          THEN /\ rec' = [rec EXCEPT !.playing = FALSE]
               /\ pworkers' = [pworkers EXCEPT ![t] = Ended]
               /\ last' = NoCall
               /\ UNCHANGED pbs
          ELSE LET frame == frames[position + 1]
               IN /\ pbs' = IF rec.playback_callback = "update_buffer"
                            THEN deliver(pbs, frame) ELSE pbs
                  /\ rec' = [rec EXCEPT !.playback_position = position + 1,
                                        !.start_time = start_time]
                  /\ last' = FrameEmitted(wrap)
                  /\ pworkers' = [pworkers EXCEPT ![t].pc = "sleep", ![t].t0 = t0,
                                                  ![t].fresh = FALSE]
    /\ UNCHANGED <<scene, caller, now, lvars, gvars, rvars>>

\* _playback_thread: one pass of the while loop, up to its sleep
Playback_thread_loop(t) ==
    /\ RecorderLive
    /\ pworkers[t].pc = "loop"
    /\ LET frames == pworkers[t].frames
           wrap == rec.playback_position >= Len(frames) /\ rec.loop_playback
           position == IF wrap THEN 0 ELSE rec.playback_position
           start_time == IF wrap THEN now ELSE rec.start_time
           t0 == IF wrap THEN now ELSE pworkers[t].t0
       IN IF ~(rec.playing /\ frames # <<>>)
          THEN /\ pworkers' = [pworkers EXCEPT ![t] = Ended]
               /\ last' = NoCall
               /\ UNCHANGED <<rec, pbs>>
          ELSE IF rec.playback_position >= Len(frames) /\ ~rec.loop_playback
          THEN /\ rec' = [rec EXCEPT !.playing = FALSE]
               /\ pworkers' = [pworkers EXCEPT ![t] = Ended]
               /\ last' = NoCall
               /\ UNCHANGED pbs
          ELSE LET frame == frames[position + 1]
                   elapsed_ms == now - start_time
               IN /\ IF elapsed_ms >= frame.timecode
                     THEN /\ pbs' = IF rec.playback_callback = "update_buffer"
                                    THEN deliver(pbs, frame) ELSE pbs
                          /\ rec' = [rec EXCEPT !.playback_position = position + 1,
                                                !.start_time = start_time]
                          /\ last' = FrameEmitted(wrap)
                     ELSE /\ rec' = [rec EXCEPT !.playback_position = position,
                                                !.start_time = start_time]
                          /\ last' = NoCall
                          /\ UNCHANGED pbs
                  /\ pworkers' = [pworkers EXCEPT ![t].pc = "sleep", ![t].t0 = t0,
                                                  ![t].fresh = FALSE]
    /\ UNCHANGED <<scene, caller, now, lvars, gvars, rvars>>

\* _playback_thread: time.sleep(min(frame_interval / 4, 0.01)) is over
Playback_thread_wake(t) ==
    /\ RecorderLive
    /\ pworkers[t].pc = "sleep"
    /\ pworkers' = [pworkers EXCEPT ![t].pc = "loop"]
    /\ last' = NoCall
    /\ UNCHANGED <<scene, caller, now, rec, pbs, lvars, gvars, rvars>>

NextPlayback ==
    \/ \E filepath \in FilePaths : Recorder_load_recording(filepath)
    \/ Recorder_stop_playback
    \/ Recorder_stop_playback_join
    \/ Playback_start
    \/ Playback_stop
    \/ \E arg \in PlaybackLists : Playback_set_universes(arg)
    \/ \E t \in DOMAIN pworkers : Playback_thread_loop(t)
    \/ \E t \in DOMAIN pworkers : Playback_thread_wake(t)
    \/ Tick

(***************************************************************************)
(* DMXRecorder (recording side, seek) used on its own                      *)
(***************************************************************************)
\* the Frame Source the recorder captures: a listener on universes 1 and 256
\* that has received one full frame for universe 1
RecordedSource ==
    Listener_process_packet(Listener_init(<<256, 1>>), Dmx(1, CHANNELS, Fill(CHANNELS, 1)))

\* the frame rate the recorder is constructed with: one frame interval is one
\* clock unit (a millisecond)
RecorderFrameRate == 1000

\* self.frame_interval = 1.0 / frame_rate, in milliseconds
frame_interval(r) == 1000 \div r.frame_rate

\* json.dump / json.load: a recording holds only str-keyed dicts, lists, ints and
\* strs, which JSON writes and reads back as they are; what is written is the
\* content of the file
json_dump(obj) == [kind |-> "json", doc |-> obj]
json_load(file) == file.doc

\* A start_recording that leaves out self.frame_count = 0 of line 69.
start_recording_keeps_count(r, thread) ==
    [r EXCEPT !.recording = TRUE,
              !.start_time = now,
              !.current_recording =
                  [metadata |-> [timestamp |-> Timestamp,
                                 frame_rate |-> r.frame_rate,
                                 universes |-> r.artnet_source.universes],
                   frames |-> <<>>],
              !.record_thread = thread]

\* DMXRecorder.start_recording past its two guards
start_recording(r, thread) ==
    [r EXCEPT !.recording = TRUE,
              !.frame_count = 0,
              !.start_time = now,
              !.current_recording =
                  [metadata |-> [timestamp |-> Timestamp,
                                 frame_rate |-> r.frame_rate,
                                 universes |-> r.artnet_source.universes],
                   frames |-> <<>>],
              !.record_thread = thread]

\* _record_thread: the frame one pass of the loop appends
capture(r) ==
    [timecode |-> now - r.start_time,
     frame |-> r.frame_count,
     data |-> [k \in {UniverseStr[u] : u \in Range(r.artnet_source.universes)} |->
                  get_buffer(r.artnet_source, ParseInt(k))]]

\* A stop_recording that writes the recording without its last frame.
finalize_without_last_frame(r) ==
    [metadata |-> [frame_count |-> Len(r.current_recording.frames) - 1,
                   duration |-> now - r.start_time]
                  @@ r.current_recording.metadata,
     frames |-> SubSeq(r.current_recording.frames, 1, Len(r.current_recording.frames) - 1)]

\* stop_recording: the recording with its final metadata
finalize(r) ==
    [metadata |-> [frame_count |-> Len(r.current_recording.frames),
                   duration |-> now - r.start_time]
                  @@ r.current_recording.metadata,
     frames |-> r.current_recording.frames]

\* A scan that accepts a frame only when its timecode is below the target.
RECURSIVE seek_scan_strict(_, _, _, _)
seek_scan_strict(frames, position_ms, i, closest_idx) ==
    IF i >= Len(frames) THEN closest_idx
    ELSE IF frames[i + 1].timecode < position_ms
         THEN seek_scan_strict(frames, position_ms, i + 1, i)
         ELSE closest_idx

\* the linear scan of seek_playback from 0-based index i on
RECURSIVE seek_scan(_, _, _, _)
seek_scan(frames, position_ms, i, closest_idx) ==
    IF i >= Len(frames) THEN closest_idx
    ELSE IF frames[i + 1].timecode <= position_ms
         THEN seek_scan(frames, position_ms, i + 1, i)
         ELSE closest_idx

\* DMXRecorder.seek_playback with a recording loaded: the new cursor
seek_playback(r, position_ms) ==
    seek_scan(r.current_playback.frames, position_ms, 0, 0)

\* a record thread whose function has returned: its locals are gone
RecordEnded == [pc |-> "done", last_frame_time |-> 0]

\* DMXRecorder.start_recording
Recorder_start_recording ==
    /\ scene = "recorder" /\ Idle
    /\ IF rec.recording \/ rec.artnet_source = None
       THEN /\ UNCHANGED <<rec, rworkers>>
            /\ last' = Returned("Recorder.start_recording", rec.recording, "False")
       ELSE /\ Len(rworkers) + Len(pworkers) < MaxStarts
            /\ rec' = start_recording(rec, Len(rworkers) + 1)
            /\ rworkers' = Append(rworkers, [pc |-> "loop", last_frame_time |-> now])
            /\ last' = Returned("Recorder.start_recording", FALSE, "True")
    /\ UNCHANGED <<scene, caller, now, pworkers, pbs, files, lvars, gvars>>

\* DMXRecorder.stop_recording up to the join
Recorder_stop_recording ==
    /\ scene = "recorder" /\ Idle
    /\ IF ~rec.recording
       THEN /\ last' = Returned("Recorder.stop_recording", FALSE, "False")
            /\ UNCHANGED <<rec, caller>>
       ELSE /\ rec' = [rec EXCEPT !.recording = FALSE]
            /\ caller' = [pc |-> "Recorder.stop_recording", pre |-> TRUE]
            /\ UNCHANGED last
    /\ UNCHANGED <<scene, now, pworkers, pbs, rvars, lvars, gvars>>

\* A stop_recording that saves without the test for captured frames of line 108.
Recorder_stop_recording_join_always_saves ==
    /\ scene = "recorder" /\ caller.pc = "Recorder.stop_recording"
    /\ JoinEnds(rworkers, rec.record_thread)
    /\ caller' = [pc |-> "idle"]
    /\ LET filepath == RecordingPath(rec.current_recording.metadata.timestamp)
       IN /\ rec' = [rec EXCEPT !.record_thread = 0,
                                !.current_recording = finalize(rec)]
          /\ files' = [files EXCEPT ![filepath] = json_dump(finalize(rec))]
          /\ last' = Returned("Recorder.stop_recording", TRUE, filepath)
    /\ UNCHANGED <<scene, now, pworkers, pbs, rworkers, lvars, gvars>>

\* DMXRecorder.stop_recording from the join on
Recorder_stop_recording_join ==
    /\ scene = "recorder" /\ caller.pc = "Recorder.stop_recording"
    /\ JoinEnds(rworkers, rec.record_thread)
    /\ caller' = [pc |-> "idle"]
    /\ IF rec.current_recording # None /\ Len(rec.current_recording.frames) > 0
       THEN LET filepath == RecordingPath(rec.current_recording.metadata.timestamp)
            IN /\ rec' = [rec EXCEPT !.record_thread = 0,
                                     !.current_recording = finalize(rec)]
               /\ IF files[filepath].kind = "unwritable"
                  THEN \* open(filepath, 'w') raises OSError; nothing catches it
                       /\ last' = Returned("Recorder.stop_recording", TRUE, "raise")
                       /\ UNCHANGED files
                  ELSE /\ files' = [files EXCEPT ![filepath] = json_dump(finalize(rec))]
                       /\ last' = Returned("Recorder.stop_recording", TRUE, filepath)
       ELSE /\ rec' = [rec EXCEPT !.record_thread = 0]
            /\ last' = Returned("Recorder.stop_recording", TRUE, "False")
            /\ UNCHANGED files
    /\ UNCHANGED <<scene, now, pworkers, pbs, rworkers, lvars, gvars>>

\* DMXRecorder.seek_playback
Recorder_seek_playback(position_ms) ==
    /\ scene \in {"recorder", "seek", "load"} /\ Idle
    /\ IF rec.current_playback = None
       THEN /\ UNCHANGED rec
            /\ last' = Returned("Recorder.seek_playback", rec.playing, "False")
       ELSE /\ rec' = [rec EXCEPT !.playback_position = seek_playback(rec, position_ms)]
            /\ last' = Returned("Recorder.seek_playback", rec.playing, "True")
    /\ UNCHANGED <<scene, caller, now, pworkers, pbs, rvars, lvars, gvars>>

\* _record_thread: one pass of the while loop, up to its sleep
Record_thread_loop(t) ==
    /\ scene = "recorder"
    /\ rworkers[t].pc = "loop"
    /\ IF ~rec.recording
       THEN /\ rworkers' = [rworkers EXCEPT ![t] = RecordEnded]
            /\ UNCHANGED rec
       ELSE IF now - rworkers[t].last_frame_time >= frame_interval(rec)
       THEN /\ Len(rec.current_recording.frames) < MaxFrames
            /\ rec' = [rec EXCEPT
                         !.current_recording.frames = Append(@, capture(rec)),
                         !.frame_count = @ + 1]
            /\ rworkers' = [rworkers EXCEPT ![t] = [pc |-> "sleep", last_frame_time |-> now]]
       ELSE /\ rworkers' = [rworkers EXCEPT ![t].pc = "sleep"]
            /\ UNCHANGED rec
    /\ last' = NoCall
    /\ UNCHANGED <<scene, caller, now, pworkers, pbs, files, lvars, gvars>>

\* _record_thread: time.sleep(min(self.frame_interval / 4, 0.01)) is over
Record_thread_wake(t) ==
    /\ scene = "recorder"
    /\ rworkers[t].pc = "sleep"
    /\ rworkers' = [rworkers EXCEPT ![t].pc = "loop"]
    /\ last' = NoCall
    /\ UNCHANGED <<scene, caller, now, rec, pworkers, pbs, files, lvars, gvars>>

\* the positions seek_playback is asked for, in milliseconds
SeekTargets == 0..MaxTime

NextRecorder ==
    \/ Recorder_start_recording
    \/ Recorder_stop_recording
    \/ Recorder_stop_recording_join
    \/ \E filepath \in RecorderPaths : Recorder_load_recording(filepath)
    \/ \E loop \in BOOLEAN : Recorder_start_playback(loop)
    \/ Recorder_stop_playback
    \/ Recorder_stop_playback_join
    \/ \E position_ms \in SeekTargets : Recorder_seek_playback(position_ms)
    \/ \E t \in DOMAIN rworkers : Record_thread_loop(t)
    \/ \E t \in DOMAIN rworkers : Record_thread_wake(t)
    \/ \E t \in DOMAIN pworkers : Playback_thread_loop(t)
    \/ \E t \in DOMAIN pworkers : Playback_thread_wake(t)
    \/ Tick

(***************************************************************************)
(* Specifications                                                          *)
(***************************************************************************)
InitListener ==
    /\ scene = "listener"
    /\ caller = [pc |-> "idle"]
    /\ last = NoCall
    /\ now = 0
    /\ \E universes \in InputLists : lst = Listener_init(universes)
    /\ lsockets = <<>>
    /\ lworkers = <<>>
    /\ gen = 0 /\ gworkers = <<>> /\ rec = 0 /\ pworkers = <<>> /\ pbs = 0
    /\ rworkers = <<>> /\ files = <<>>

SpecListener == InitListener /\ [][NextListener]_vars

SpecInterleaved == InitListener /\ [][NextInterleaved]_vars

InitGenerator ==
    /\ scene = "generator"
    /\ caller = [pc |-> "idle"]
    /\ last = NoCall
    /\ now = 0
    /\ \E universes \in InputLists, p \in PatternTypes :
          gen = [TestSource_init(universes, p) EXCEPT !.fps = GeneratorFps]
    /\ gworkers = <<>>
    /\ lst = 0 /\ lsockets = <<>> /\ lworkers = <<>> /\ rec = 0 /\ pworkers = <<>> /\ pbs = 0
    /\ rworkers = <<>> /\ files = <<>>

SpecGenerator == InitGenerator /\ [][NextGenerator]_vars

\* the generator with callers that also set the speed
NextSpeed ==
    \/ NextGenerator
    \/ \E speed \in SpeedValues : TestSource_set_speed(speed)

SpecSpeed == InitGenerator /\ [][NextSpeed]_vars

InitPlayback ==
    /\ scene = "playback"
    /\ caller = [pc |-> "idle"]
    /\ last = NoCall
    /\ now = 0
    /\ rec = Recorder_init
    /\ pbs = Playback_init
    /\ pworkers = <<>>
    /\ lst = 0 /\ lsockets = <<>> /\ lworkers = <<>> /\ gen = 0 /\ gworkers = <<>>
    /\ rworkers = <<>> /\ files = Disk

SpecPlayback == InitPlayback /\ [][NextPlayback]_vars

\* The playback source playing a recording of two frames that was captured while
\* the recorded source changed its universes: its first frame holds universe 0,
\* which the metadata list does not name.
InitDelivery ==
    /\ scene = "playback"
    /\ caller = [pc |-> "idle"]
    /\ last = NoCall
    /\ now = 0
    /\ rec = Recorder_init
    /\ pbs = Playback_init
    /\ pworkers = <<>>
    /\ lst = 0 /\ lsockets = <<>> /\ lworkers = <<>> /\ gen = 0 /\ gworkers = <<>>
    /\ rworkers = <<>>
    /\ files = [Disk EXCEPT !["a.json"] =
                   [kind |-> "json",
                    doc |-> Recording(<<1>>, <<Frame(0, 0, {0, 1}, 5), Frame(1, 1, {1}, 6)>>)]]

SpecDelivery == InitDelivery /\ [][NextPlayback]_vars

InitRecorder ==
    /\ scene = "recorder"
    /\ caller = [pc |-> "idle"]
    /\ last = NoCall
    /\ now = 0
    /\ \E src \in {None, RecordedSource} :
          rec = [Recorder_init EXCEPT !.artnet_source = src,
                                     !.frame_rate = RecorderFrameRate]
    /\ pworkers = <<>>
    /\ rworkers = <<>>
    /\ files = Disk
    /\ pbs = 0
    /\ lst = 0 /\ lsockets = <<>> /\ lworkers = <<>> /\ gen = 0 /\ gworkers = <<>>

SpecRecorder == InitRecorder /\ [][NextRecorder]_vars

\* A recorder that is only loaded, played and stopped, with a clock that
\* advances and playback threads that get to run.
NextLoop ==
    \/ \E filepath \in RecorderPaths : Recorder_load_recording(filepath)
    \/ \E loop \in BOOLEAN : Recorder_start_playback(loop)
    \/ Recorder_stop_playback
    \/ Recorder_stop_playback_join
    \/ \E t \in DOMAIN pworkers : Playback_thread_loop(t)
    \/ \E t \in DOMAIN pworkers : Playback_thread_wake(t)
    \/ Tick

FairLoop ==
    /\ WF_vars(Tick)
    /\ \A t \in 1..MaxStarts :
         /\ WF_vars(t \in DOMAIN pworkers /\ Playback_thread_loop(t))
         /\ WF_vars(t \in DOMAIN pworkers /\ Playback_thread_wake(t))

SpecLoop == InitRecorder /\ [][NextLoop]_vars /\ FairLoop

\* seek_playback on its own: a recorder that has loaded a recording of up to
\* MaxSeekLen frames with any timecodes is asked for any position
Timecodes == UNION {[1..n -> 0..MaxTimecode] : n \in 0..MaxSeekLen}

SeekRecording(timecodes) ==
    Recording(<<1>>, [i \in 1..Len(timecodes) |-> Frame(timecodes[i], i - 1, {1}, i)])

NextSeek == \E position_ms \in 0..MaxTimecode : Recorder_seek_playback(position_ms)

InitSeek ==
    /\ scene = "seek"
    /\ caller = [pc |-> "idle"]
    /\ last = NoCall
    /\ now = 0
    /\ \E timecodes \in Timecodes :
          files = [Disk EXCEPT !["b.json"] = json_dump(SeekRecording(timecodes))]
    /\ rec = load_recording(Recorder_init, "b.json").rec
    /\ pworkers = <<>>
    /\ rworkers = <<>>
    /\ pbs = 0
    /\ lst = 0 /\ lsockets = <<>> /\ lworkers = <<>> /\ gen = 0 /\ gworkers = <<>>

SpecSeek == InitSeek /\ [][NextSeek]_vars

\* another Frame Source the recorder can be pointed at: a listener on universe 0
OtherSource == Listener_init(<<0>>)

\* DMXRecorder.set_artnet_source
Recorder_set_artnet_source(artnet_source) ==
    /\ scene = "recorder" /\ Idle
    /\ rec' = [rec EXCEPT !.artnet_source = artnet_source]
    /\ last' = Returned("Recorder.set_artnet_source", rec.recording, "None")
    /\ UNCHANGED <<scene, caller, now, rworkers, pworkers, pbs, files, lvars, gvars>>

\* ArtNetListener.set_universes called on the listener the recorder captures:
\* the listener gets a new list object, the list start_recording put into the
\* metadata is the old one
RecordedSource_set_universes(arg) ==
    /\ scene = "recorder" /\ Idle
    /\ rec.artnet_source # None
    /\ rec' = [rec EXCEPT !.artnet_source = set_universes(rec.artnet_source, arg)]
    /\ last' = Returned("Listener.set_universes", rec.recording,
                        set_universes_result(rec.artnet_source, arg))
    /\ UNCHANGED <<scene, caller, now, rworkers, pworkers, pbs, files, lvars, gvars>>

\* Recording alone, into a directory where the recording file cannot be
\* written (the directory was removed or is read-only, or the disk is full).
NextRecording ==
    \/ Recorder_start_recording
    \/ Recorder_stop_recording
    \/ Recorder_stop_recording_join
    \/ \E t \in DOMAIN rworkers : Record_thread_loop(t)
    \/ \E t \in DOMAIN rworkers : Record_thread_wake(t)
    \/ Tick

InitWriteFails ==
    /\ scene = "recorder"
    /\ caller = [pc |-> "idle"]
    /\ last = NoCall
    /\ now = 0
    /\ \E src \in {None, RecordedSource} :
          rec = [Recorder_init EXCEPT !.artnet_source = src,
                                     !.frame_rate = RecorderFrameRate]
    /\ pworkers = <<>>
    /\ rworkers = <<>>
    /\ files = [Disk EXCEPT ![RecordingPath(Timestamp)] = [kind |-> "unwritable"]]
    /\ pbs = 0
    /\ lst = 0 /\ lsockets = <<>> /\ lworkers = <<>> /\ gen = 0 /\ gworkers = <<>>

SpecWriteFails == InitWriteFails /\ [][NextRecording]_vars

\* the universe lists handed to the captured listener's set_universes
SourceLists == {<<1>>, <<256, 1>>}

\* Recording while the application reconfigures the captured source
NextSources ==
    \/ NextRecording
    \/ \E artnet_source \in {RecordedSource, OtherSource} :
          Recorder_set_artnet_source(artnet_source)
    \/ \E arg \in SourceLists : RecordedSource_set_universes(arg)

SpecSources == InitRecorder /\ [][NextSources]_vars

\* load_recording on its own: a fresh recorder is asked to load files of every
\* kind, and to seek in between
NextLoad ==
    \/ \E filepath \in LoadPaths : Recorder_load_recording(filepath)
    \/ \E position_ms \in SeekTargets : Recorder_seek_playback(position_ms)

InitLoad ==
    /\ scene = "load"
    /\ caller = [pc |-> "idle"]
    /\ last = NoCall
    /\ now = 0
    /\ files \in [LoadPaths -> LoadContents]
    /\ rec = Recorder_init
    /\ pworkers = <<>>
    /\ rworkers = <<>>
    /\ pbs = 0
    /\ lst = 0 /\ lsockets = <<>> /\ lworkers = <<>> /\ gen = 0 /\ gworkers = <<>>

SpecLoad == InitLoad /\ [][NextLoad]_vars

\* any one of the three variants is the live source, or a recorder captures one
Init == InitListener \/ InitGenerator \/ InitPlayback \/ InitRecorder

Next == NextListener \/ NextGenerator \/ NextPlayback \/ NextRecorder

Spec == Init /\ [][Next]_vars

\* the live Frame Source object
Source ==
    IF scene = "listener" THEN lst
    ELSE IF scene = "generator" THEN gen
    ELSE IF scene = "playback" THEN pbs
    ELSE RecordedSource

(***************************************************************************)
(* Claims                                                                  *)
(***************************************************************************)
\* the fields of a datagram as the wire format lays them out
WireValid(data) ==
    /\ Len(data) >= 18
    /\ \A i \in 1..8 : data[i] = ARTNET_HEADER[i]
    /\ data[9] + 256 * data[10] = 20480
WireUniverse(data) == data[15] + 256 * data[16]
WireLength(data) == 256 * data[17] + data[18]
WirePayload(data) == [i \in 1..Min(WireLength(data), Len(data) - 18) |-> data[18 + i]]
ZeroPadded(payload) ==
    IF Len(payload) < 512 THEN payload \o [i \in 1..(512 - Len(payload)) |-> 0] ELSE payload

\* C1: after _process_packet of a valid ArtDmx datagram for a universe of the set,
\* get_buffer(universe) is the payload, zero-padded to 512 entries when shorter.
C1_BufferIsPaddedPayload ==
    [][\A t \in DOMAIN lworkers, data \in Datagrams :
         (WireValid(data) /\ WireUniverse(data) \in Range(lst.universes)
            /\ Listener_thread_recv(t, data))
         => get_buffer(lst', WireUniverse(data)) = ZeroPadded(WirePayload(data))]_vars

\* C2: a datagram shorter than 18 bytes, with a wrong signature or with an opcode
\* other than 0x5000 leaves every Channel Buffer and the universe set unchanged.
C2_InvalidDatagramIgnored ==
    [][\A t \in DOMAIN lworkers, data \in Datagrams :
         (~WireValid(data) /\ Listener_thread_recv(t, data))
         => (lst'.buffers = lst.buffers /\ lst'.universes = lst.universes)]_vars

\* C2 witness: the listener has just dropped a datagram while holding received data
C2_Witness ==
    /\ scene = "listener"
    /\ last.op = "packet" /\ last.ret = "dropped"
    /\ \E u \in DOMAIN lst.buffers : lst.buffers[u] # Zeros

\* C3: get_buffer(u) of a universe u outside the source's universe set is 512 zeros.
C3_UnknownUniverseReadsZeros ==
    \A u \in Universes : u \notin Range(Source.universes) => get_buffer(Source, u) = Zeros

\* C4: every Channel Buffer a source holds, and so every buffer get_all_buffers
\* returns, has exactly 512 entries.
C4_BufferLengthIs512 ==
    /\ \A u \in DOMAIN Source.buffers : Len(Source.buffers[u]) = 512
    /\ \A i \in 1..Len(Source.universes) : Len(get_all_buffers(Source)[i]) = 512

\* what C5 promises of a set_universes(L) step taking the source from s to s2
SetUniversesPost(s, s2, L) ==
    LET N == IF L = <<>> THEN <<0>> ELSE Sorted(L)
    IN /\ s2.universes = N
       /\ DOMAIN s2.buffers = Range(N)
       /\ \A u \in Range(N) :
            /\ u \notin DOMAIN s.buffers => get_buffer(s2, u) = Zeros
            /\ u \in Range(s.universes) => get_buffer(s2, u) = get_buffer(s, u)

\* C5: after set_universes(L) on the listener or the playback source the universe
\* set is N = sorted(L) (or [0]), buffers exist for exactly the universes of N, new
\* ones are zero and retained ones are untouched.
C5_SetUniversesRebuildsBuffers ==
    [][/\ \A arg \in InputLists :
            Listener_set_universes(arg) => SetUniversesPost(lst, lst', arg)
       /\ \A arg \in PlaybackLists :
            Playback_set_universes(arg) => SetUniversesPost(pbs, pbs', arg)]_vars

\* C6: the universe list of every Frame Source holds at least one universe in
\* every reachable state, from construction onward.
C6_UniverseSetNeverEmpty == Source.universes # <<>>

\* C7: the universe list of every Frame Source is strictly ascending (sorted, no
\* duplicates), so get_all_buffers returns one buffer per distinct universe.
C7_UniverseSetSortedDistinct ==
    /\ \A i, j \in 1..Len(Source.universes) :
         i < j => Source.universes[i] < Source.universes[j]
    /\ Len(get_all_buffers(Source)) = Cardinality(Range(Source.universes))

\* a step that is part of an ArtNetPlaybackSource.start() made while running
PlaybackRestartStep ==
    \/ Playback_start /\ pbs.running
    \/ Recorder_stop_playback_join /\ caller.from = "Playback.start"

\* C8: start() on a running source is a no-op on every variant: flags, worker,
\* transport, buffers and the recorder's playing flag, cursor and time reference
\* stay as they are and no worker is launched.
C8_StartIsNoOpWhenRunning ==
    [][/\ (Listener_start /\ lst.running) => UNCHANGED lvars
       /\ (TestSource_start /\ gen.running) => UNCHANGED gvars
       /\ PlaybackRestartStep => UNCHANGED pvars]_vars

\* C8 as amended: start() on a running listener or generator is a no-op; start()
\* on a running playback source stops the playback and starts it again: when it
\* returns the source runs, the recorder plays with a newly launched worker and a
\* time reference read at the restart, and the cursor is where it was.
C8_StartIsNoOpExceptPlaybackRestarts ==
    [][/\ (Listener_start /\ lst.running) => UNCHANGED lvars
       /\ (TestSource_start /\ gen.running) => UNCHANGED gvars
       /\ (PlaybackRestartStep /\ caller'.pc = "idle")
            => /\ pbs'.running /\ rec'.playing
               /\ pworkers' = Append(pworkers, NewPlaybackThread(rec))
               /\ rec'.playback_thread = Len(pworkers')
               /\ rec'.start_time = now
               /\ rec'.playback_position = rec.playback_position]_vars

\* C8 witness: start() has returned on a playback source that was running, with
\* the second worker launched
C8_Witness ==
    /\ scene = "playback"
    /\ last = Returned("Playback.start", TRUE, "True")
    /\ Len(pworkers) = 2

\* a step in which stop() returns to its caller
StopReturns ==
    \/ Listener_stop /\ lst.thread = 0
    \/ Listener_stop_join
    \/ TestSource_stop /\ gen.thread = 0
    \/ TestSource_stop_join
    \/ Playback_stop /\ caller'.pc = "idle"
    \/ Recorder_stop_playback_join /\ caller.from = "Playback.stop"

\* C9: when stop() returns is_running() is false, and stop() on a stopped source
\* (a second stop, or a stop before any start) returns at once and changes nothing.
C9_StopIsIdempotent ==
    [][/\ StopReturns => ~Source'.running
       /\ (Listener_stop /\ ~lst.running) => (UNCHANGED lvars /\ caller'.pc = "idle")
       /\ (TestSource_stop /\ ~gen.running) => (UNCHANGED gvars /\ caller'.pc = "idle")
       /\ (Playback_stop /\ ~pbs.running) => (UNCHANGED pvars /\ caller'.pc = "idle")]_vars

\* C9 witness: a second stop() has returned on a listener that was started and
\* stopped before
C9_Witness ==
    /\ scene = "listener"
    /\ last = Returned("Listener.stop", FALSE, "None")
    /\ Len(lworkers) > 0

\* a worker thread takes a step
WorkerStep ==
    \/ \E t \in DOMAIN lworkers :
          \/ Listener_thread_loop(t) \/ Listener_thread_oserror(t) \/ Listener_thread_wake(t)
          \/ \E data \in Datagrams : Listener_thread_recv(t, data)
    \/ \E t \in DOMAIN gworkers : TestSource_thread_loop(t) \/ TestSource_thread_wake(t)
    \/ \E t \in DOMAIN pworkers : Playback_thread_loop(t) \/ Playback_thread_wake(t)

\* C10: once stop() has returned on a source, the worker that ran for it writes
\* no buffer and moves no cursor.
C10_NoWriteAfterStop ==
    [][(WorkerStep /\ Idle /\ ~Source.running /\ (scene = "playback" => ~rec.playing))
         => /\ Source'.buffers = Source.buffers
            /\ scene = "playback" => rec'.playback_position = rec.playback_position]_vars

\* the recording the recorder is writing or has last written, if any
Captured == IF rec.current_recording = None THEN <<>> ELSE rec.current_recording.frames

\* C11: within one recording the captured frames' timecodes are non-negative and
\* non-decreasing in frame order.
C11_TimecodesNonDecreasing ==
    scene = "recorder" =>
        /\ \A i \in 1..Len(Captured) : Captured[i].timecode >= 0
        /\ \A i, j \in 1..Len(Captured) :
              i < j => Captured[i].timecode <= Captured[j].timecode

\* the file stop_recording writes
SavedFile == files[RecordingPath(Timestamp)]

\* C12: the k-th captured frame of a recording, counting from 0, carries sequence
\* index k, in the recording being written and in the file written from it.
C12_SequenceIndexIsPosition ==
    scene = "recorder" =>
        /\ \A i \in 1..Len(Captured) : Captured[i].frame = i - 1
        /\ SavedFile.kind = "json" =>
              \A i \in 1..Len(SavedFile.doc.frames) : SavedFile.doc.frames[i].frame = i - 1

\* C12 witness: a second recording cycle on the same recorder has captured a frame
\* after the first cycle was saved
C12_Witness ==
    /\ scene = "recorder"
    /\ Len(rworkers) = 2 /\ rec.recording
    /\ SavedFile.kind = "json"
    /\ Len(Captured) = 1

\* stop_recording has just returned the location it wrote the recording to
JustSaved ==
    /\ last.op = "Recorder.stop_recording"
    /\ last.ret = RecordingPath(Timestamp)

\* C13: loading the location stop_recording returned succeeds and yields
\* frame_count N, the N frames as captured (timecode, sequence index, channel data
\* per universe) and the universe list of the source, N >= 1 being the number of
\* frames the session captured.
C13_RecordingRoundTrip ==
    [][(JustSaved /\ Recorder_load_recording(RecordingPath(Timestamp)))
       => /\ rec.frame_count >= 1
          /\ last'.ret = "True"
          /\ rec'.current_playback.metadata.frame_count = rec.frame_count
          /\ Len(rec'.current_playback.frames) = rec.frame_count
          /\ \A i \in 1..Len(Captured) :
                /\ rec'.current_playback.frames[i].timecode = Captured[i].timecode
                /\ rec'.current_playback.frames[i].frame = Captured[i].frame
                /\ \A u \in Range(rec.artnet_source.universes) :
                      rec'.current_playback.frames[i].data[UniverseStr[u]]
                          = Captured[i].data[UniverseStr[u]]
          /\ Len(Captured) = rec.frame_count
          /\ rec'.playback_universes = rec.artnet_source.universes
          /\ rec'.current_playback.metadata.universes = rec.artnet_source.universes]_vars

\* C13 witness: a recording of two frames was saved and has been loaded back
C13_Witness ==
    /\ scene = "recorder"
    /\ last = Returned("Recorder.load_recording", FALSE, "True")
    /\ rec.current_playback # None
    /\ Len(rec.current_playback.frames) = 2
    /\ rec.frame_count = 2
    /\ rec.playback_universes = <<1, 256>>

\* C14: stop_recording on a recording recorder clears the recording flag; with at
\* least one captured frame it sets metadata frame_count to the number of captured
\* frames, persists the recording and returns its location; with none it persists
\* nothing and returns False.
C14_StopRecordingPersists ==
    [][((Recorder_stop_recording /\ rec.recording) => ~rec'.recording)
       /\ (Recorder_stop_recording_join =>
             /\ ~rec'.recording
             /\ IF rec.frame_count >= 1
                THEN /\ files'[RecordingPath(Timestamp)].kind = "json"
                     /\ files'[RecordingPath(Timestamp)].doc.metadata.frame_count
                           = rec.frame_count
                     /\ files'[RecordingPath(Timestamp)].doc.frames = Captured
                     /\ Len(Captured) = rec.frame_count
                     /\ last'.ret = RecordingPath(Timestamp)
                ELSE /\ files' = files
                     /\ last'.ret = "False")]_vars

\* C14 witness: stop_recording has returned the location of a two-frame recording
C14_Witness ==
    /\ scene = "recorder"
    /\ JustSaved
    /\ SavedFile.kind = "json"
    /\ SavedFile.doc.metadata.frame_count = 2

\* the call returns False and changes neither the recorder, its threads nor the files
Rejected ==
    /\ last'.ret = "False"
    /\ caller' = [pc |-> "idle"]
    /\ UNCHANGED <<rec, rworkers, pworkers, files>>

\* C15: start_recording when recording or without a source, start_playback when
\* playing or with nothing loaded, stop_recording when not recording, stop_playback
\* when not playing and seek_playback with nothing loaded return False, change no
\* recorder state and launch no worker.
C15_InvalidSequencingRejected ==
    [][(scene = "recorder") =>
         /\ (Recorder_start_recording /\ (rec.recording \/ rec.artnet_source = None))
               => Rejected
         /\ \A loop \in BOOLEAN :
               (Recorder_start_playback(loop)
                  /\ (rec.playing \/ rec.current_playback = None)) => Rejected
         /\ (Recorder_stop_recording /\ ~rec.recording) => Rejected
         /\ (Recorder_stop_playback /\ ~rec.playing) => Rejected
         /\ \A position_ms \in SeekTargets :
               (Recorder_seek_playback(position_ms) /\ rec.current_playback = None)
                  => Rejected]_vars

\* C15 witness: start_playback was refused while a playback was running
C15_Witness ==
    /\ scene = "recorder"
    /\ last = Returned("Recorder.start_playback", TRUE, "False")
    /\ rec.playing
    /\ Len(pworkers) = 1

\* C16: immediately after start_playback returns True the playback cursor is 0,
\* whatever it was before.
C16_StartPlaybackResetsCursor ==
    [][\A loop \in BOOLEAN :
         (Recorder_start_playback(loop) /\ last'.ret = "True")
         => rec'.playback_position = 0]_vars

\* C17: a frame is emitted no earlier than its timecode after the reference time
\* (the time playback started, or the time of the last loop wrap), and when the
\* first pass of a playback thread finds the cursor at a frame 0 whose timecode
\* is 0, that pass emits it.
C17_PlaybackFidelity ==
    [][\A t \in DOMAIN pworkers :
         (pworkers[t].pc = "loop" /\ Playback_thread_loop(t))
         => /\ last'.op = "frame"
               => now >= pworkers'[t].t0
                         + pworkers[t].frames[rec'.playback_position].timecode
            /\ ( /\ pworkers[t].fresh /\ rec.playing /\ rec.playback_position = 0
                 /\ pworkers[t].frames # <<>>
                 /\ pworkers[t].frames[1].timecode = 0 )
               => (last'.op = "frame" /\ rec'.playback_position = 1)]_vars

\* C17 witness: the playback source has just been handed a frame with a positive
\* timecode, at the earliest time its timecode allows.
C17_Witness ==
    /\ scene = "playback" /\ last = FrameEmitted(FALSE)
    /\ \E t \in DOMAIN pworkers :
         /\ pworkers[t].pc = "sleep"
         /\ pworkers[t].frames[rec.playback_position].timecode = 1
         /\ now = pworkers[t].t0 + 1
    /\ \E u \in DOMAIN pbs.buffers : pbs.buffers[u] = Fill(CHANNELS, 5)

\* the playback thread of a looping playback has emitted the last frame
LastFrameEmitted(t) ==
    /\ pworkers[t].pc \in {"loop", "sleep"} /\ pworkers[t].frames # <<>>
    /\ rec.playing /\ rec.loop_playback
    /\ rec.playback_position >= Len(pworkers[t].frames)

\* C18 (the wrap): the pass of a looping playback that finds the cursor past the
\* last frame keeps playing and the thread alive, sets the elapsed-time
\* reference to the current time and sets the cursor to 0, or to 1 when it emits
\* frame 0 in the same pass; no pass of a looping playback over a non-empty
\* recording clears the playing flag.
C18_WrapStep ==
    [][\A t \in DOMAIN pworkers :
         ( /\ pworkers[t].pc = "loop" /\ pworkers[t].frames # <<>>
           /\ rec.playing /\ rec.loop_playback
           /\ Playback_thread_loop(t) )
         => /\ rec'.playing /\ pworkers'[t].pc = "sleep"
            /\ rec.playback_position >= Len(pworkers[t].frames)
               => /\ rec'.start_time = now
                  /\ rec'.playback_position = (IF last'.op = "frame" THEN 1 ELSE 0)
                  /\ last'.op = "frame" <=> pworkers[t].frames[1].timecode <= 0]_vars

\* C18: a looping playback wraps as described, and once its last frame has been
\* emitted, frame 0 is emitted again unless stop_playback is called or frame 0
\* is due after the last clock reading.
C18_LoopPlaybackWraps ==
    /\ C18_WrapStep
    /\ \A t \in 1..MaxStarts :
         (t \in DOMAIN pworkers /\ LastFrameEmitted(t))
         ~> \/ last.op = "frame" /\ rec.playback_position = 1
            \/ ~rec.playing
            \/ /\ t \in DOMAIN pworkers /\ pworkers[t].frames # <<>>
               /\ rec.start_time + pworkers[t].frames[1].timecode > ClockEnd

\* C18 witness: a looping playback of a two-frame recording has wrapped and
\* emitted frame 0 again in the same pass.
C18_Witness ==
    /\ last = FrameEmitted(TRUE)
    /\ rec.playing /\ rec.loop_playback /\ rec.playback_position = 1
    /\ rec.start_time = now /\ now >= 1
    /\ \E t \in DOMAIN pworkers : pworkers[t].pc = "sleep" /\ Len(pworkers[t].frames) = 2

\* C19: a non-looping playback does not outlive its thread: only the playback
\* thread can clear the playing flag without a stop_playback call, so whenever
\* that thread has ended the playing flag is false.
C19_NonLoopingPlaybackStops ==
    (rec.playing /\ ~rec.loop_playback /\ rec.playback_thread \in DOMAIN pworkers)
    => pworkers[rec.playback_thread].pc # "done"

\* the timecodes of a frame list never decrease
NonDecreasing(frames) ==
    \A i \in 1..Len(frames), j \in 1..Len(frames) :
        i <= j => frames[i].timecode <= frames[j].timecode

\* the largest 0-based index of a frame whose timecode is at most t; 0 if none
LatestNotAfter(frames, t) ==
    LET S == {i \in 0..(Len(frames) - 1) : frames[i + 1].timecode <= t}
    IN IF S = {} THEN 0 ELSE CHOOSE i \in S : \A j \in S : j <= i

\* C20: with a recording loaded whose timecodes never decrease, seek_playback(t)
\* returns True and leaves the cursor at the largest index whose timecode is at
\* most t, and at 0 when there is no such frame or no frame at all.
C20_SeekFindsLatestFrame ==
    [][\A position_ms \in 0..MaxTimecode :
         ( /\ rec.current_playback # None
           /\ NonDecreasing(rec.current_playback.frames)
           /\ Recorder_seek_playback(position_ms) )
         => /\ last'.ret = "True"
            /\ rec'.playback_position
                 = LatestNotAfter(rec.current_playback.frames, position_ms)]_vars

\* C20 witness: a seek on a recording with timecodes 0, 1, 3 has put the cursor
\* at index 1, as a seek to 2 does.
C20_Witness ==
    /\ scene = "seek" /\ last = Returned("Recorder.seek_playback", FALSE, "True")
    /\ Len(rec.current_playback.frames) = 3
    /\ rec.current_playback.frames[1].timecode = 0
    /\ rec.current_playback.frames[2].timecode = 1
    /\ rec.current_playback.frames[3].timecode = 3
    /\ rec.playback_position = 1

\* C21: whenever a recording is loaded, the playback cursor lies between 0 and
\* the number of frames of that recording.
C21_CursorWithinRecording ==
    rec.current_playback # None
    => rec.playback_position \in 0..Len(rec.current_playback.frames)

\* a step in which ArtNetPlaybackSource.start returns
PlaybackStartReturns ==
    /\ scene = "playback" /\ last'.op = "Playback.start" /\ caller'.pc = "idle"
    /\ Playback_start \/ Recorder_stop_playback_join

\* C22: when ArtNetPlaybackSource.start returns, the source is running with the
\* universe list of the loaded recording (its own list when none is loaded),
\* every universe of that list has a zero-filled buffer, and the recorder is
\* playing, with update_buffer as callback if this call started the playback.
C22_PlaybackStartPost ==
    [][PlaybackStartReturns
       => /\ pbs'.running
          /\ pbs'.universes = (IF rec.current_playback = None THEN pbs.universes
                               ELSE rec.playback_universes)
          /\ \A u \in Range(pbs'.universes) :
                u \in DOMAIN pbs'.buffers /\ pbs'.buffers[u] = Zeros
          /\ rec'.playing
          /\ ~rec.playing => rec'.playback_callback = "update_buffer"]_vars

\* C22 (a loaded recording): the same statement for calls made with a recording
\* loaded.
C22_PlaybackStartPostWhenLoaded ==
    [][(scene = "playback" /\ rec.current_playback # None /\ PlaybackStartReturns)
       => /\ pbs'.running
          /\ pbs'.universes = rec.playback_universes
          /\ \A u \in Range(pbs'.universes) :
                u \in DOMAIN pbs'.buffers /\ pbs'.buffers[u] = Zeros
          /\ rec'.playing]_vars

\* a file load_recording can use: JSON with the metadata and frames fields, and
\* in metadata the universes and frame_rate fields that load_recording reads
WellFormed(file) ==
    /\ file.kind = "json"
    /\ {"metadata", "frames"} \subseteq DOMAIN file.doc
    /\ {"universes", "frame_rate"} \subseteq DOMAIN file.doc.metadata

\* C23: load_recording returns True or False and never leaves as an exception.
\* For a well-formed file it returns True, the loaded recording is the file's,
\* playback_universes is its universe list, its frame count is the file's, and
\* the cursor is 0; for a missing file, a file that is not JSON, or a document
\* lacking metadata, frames, or a metadata field load_recording reads, it
\* returns False.
C23_LoadRecordingNeverRaises ==
    [][\A filepath \in LoadPaths :
         (scene = "load" /\ Recorder_load_recording(filepath))
         => /\ last'.op = "Recorder.load_recording"
            /\ IF WellFormed(files[filepath])
               THEN /\ last'.ret = "True"
                    /\ rec'.current_playback = files[filepath].doc
                    /\ rec'.playback_universes = files[filepath].doc.metadata.universes
                    /\ Len(rec'.current_playback.frames) = Len(files[filepath].doc.frames)
                    /\ rec'.playback_position = 0
               ELSE last'.ret = "False"]_vars

\* C23 witness: on a disk that also holds a well-formed recording, a load of a
\* document whose metadata lacks frame_rate has returned False.
C23_Witness ==
    /\ scene = "load" /\ last = Returned("Recorder.load_recording", FALSE, "False")
    /\ rec.current_playback # None
    /\ "frame_rate" \notin DOMAIN rec.current_playback.metadata
    /\ \E filepath \in LoadPaths : WellFormed(files[filepath])

\* C24: stop_recording never leaves as an exception: when it has returned, its
\* result is a path or False, and the recorder is not recording.
C24_WriteFailureReported ==
    last.op = "Recorder.stop_recording" => (last.ret # "raise" /\ ~rec.recording)

\* C25: every frame the running pattern thread generates is of the pattern type
\* set at that moment (a horizontal gradient runs from 0 to 255, a vertical
\* gradient is constant within a universe), and the pass schedules the next
\* frame one interval of the frame rate set at that moment later.
C25_ReconfigurationTakesEffect ==
    [][\A t \in DOMAIN gworkers :
         (gworkers[t].pc = "loop" /\ gen.running /\ TestSource_thread_loop(t))
         => /\ \A u \in Range(gen.universes) :
                 IF gen.pattern_type = "GRADIENT_H"
                 THEN gen'.buffers[u][1] = 0 /\ gen'.buffers[u][CHANNELS] = 255
                 ELSE gen'.buffers[u][1] = gen'.buffers[u][CHANNELS]
            /\ gworkers'[t].next_time = now + 1000 \div gen.fps]_vars

\* i / 511 * 255 rounded to the nearest integer, for the channel index i of the
\* source (0..511); no value lies half way between two integers
RoundedGradient(i) == (2 * i * 255 + 511) \div (2 * 511)

\* C26: in every frame the pattern thread generates with the horizontal gradient,
\* channel i (0..511) of every universe of the generator holds i/511 * 255
\* rounded to the nearest integer.
C26_HorizontalGradientRounded ==
    [][\A t \in DOMAIN gworkers :
         (gworkers[t].pc = "loop" /\ gen.running /\ gen.pattern_type = "GRADIENT_H"
          /\ TestSource_thread_loop(t))
         => \A u \in Range(gen.universes) : \A i \in 1..CHANNELS :
                gen'.buffers[u][i] = RoundedGradient(i - 1)]_vars

\* C27: the Pattern Generator takes a universe update as the listener and the
\* playback source do: after the update with list L its universe list is sorted(L)
\* (or [0]), buffers exist for exactly those universes, new ones are zero and
\* retained ones are untouched.
C27_GeneratorSetUniverses ==
    [][\A universes \in InputLists :
         MainWindow_update_universes(universes)
         => SetUniversesPost(gen, gen', universes)]_vars

\* a step of the playing axis: start_playback, a pass of the playback loop (the
\* loop wrap included) or stop_playback
PlayingStep ==
    \/ \E loop \in BOOLEAN : Recorder_start_playback(loop)
    \/ \E t \in DOMAIN pworkers : Playback_thread_loop(t) \/ Playback_thread_wake(t)
    \/ Recorder_stop_playback
    \/ Recorder_stop_playback_join

\* a step of the recording axis: start_recording, a capture pass or stop_recording
RecordingStep ==
    \/ Recorder_start_recording
    \/ \E t \in DOMAIN rworkers : Record_thread_loop(t) \/ Record_thread_wake(t)
    \/ Recorder_stop_recording
    \/ Recorder_stop_recording_join

\* C28: a step of the playing axis leaves the recording flag, the captured frames
\* and, while a recording is in progress, its start reference time unchanged; a
\* step of the recording axis leaves the playing flag, the cursor and, while
\* playback is in progress, the playback reference time unchanged.
C28_RecordingAndPlayingIndependent ==
    [][scene = "recorder" =>
         /\ PlayingStep =>
              /\ rec'.recording = rec.recording
              /\ rec'.current_recording = rec.current_recording
              /\ rec.recording => rec'.start_time = rec.start_time
         /\ RecordingStep =>
              /\ rec'.playing = rec.playing
              /\ rec'.playback_position = rec.playback_position
              /\ rec.playing => rec'.start_time = rec.start_time]_vars

\* the values a consumer may read from universe u of a source after a worker step
\* that was writing the array new: the entire previous buffer or the entire new one
WholeBuffer(before, after, u, new) ==
    get_buffer(after, u) = get_buffer(before, u) \/ get_buffer(after, u) = new

C30_RunningWorkerAlive ==
    (scene = "generator" /\ gen.running)
    => gen.thread \in DOMAIN gworkers /\ gworkers[gen.thread].pc # "done"

\* C31: every pass of the running pattern thread sets the target wake time of the
\* next iteration to the target of this iteration plus the frame interval, never
\* to a clock reading plus the interval.
C31_DriftCorrectedSchedule ==
    [][\A t \in DOMAIN gworkers :
         (gworkers[t].pc = "loop" /\ gen.running /\ TestSource_thread_loop(t))
         => gworkers'[t].next_time = gworkers[t].next_time + gworkers[t].interval]_vars

\* the worker threads of one duty that have not ended
Live(workers) == {t \in DOMAIN workers : workers[t].pc # "done"}

\* C32: at any time at most one listener thread, one pattern thread, one capture
\* thread and one playback thread is alive.
C32_OneWorkerPerDuty ==
    /\ Cardinality(Live(lworkers)) <= 1
    /\ Cardinality(Live(gworkers)) <= 1
    /\ Cardinality(Live(rworkers)) <= 1
    /\ Cardinality(Live(pworkers)) <= 1

\* C33: whenever no listener thread is between the membership test and the
\* assignment of _process_packet and no call is in progress, the universes that
\* have a buffer are exactly the universes of the listener's list, whatever
\* set_universes calls ran while packets were processed.
C33_SetUniversesSafeWhileRunning ==
    (scene = "listener" /\ Idle /\ \A t \in DOMAIN lworkers : lworkers[t].pc # "store")
    => DOMAIN lst.buffers = Range(lst.universes)

\* C34: when load_recording returns False, the loaded recording, the playback
\* universe list and the cursor are what they were before the call.
C34_FailedLoadChangesNothing ==
    [][\A filepath \in LoadPaths :
         (scene = "load" /\ Recorder_load_recording(filepath) /\ last'.ret = "False")
         => /\ rec'.current_playback = rec.current_playback
            /\ rec'.playback_universes = rec.playback_universes
            /\ rec'.playback_position = rec.playback_position]_vars

\* C35: whenever no call is in progress and the playback source reports running,
\* the recorder is playing.
C35_RunningMeansPlaying ==
    (scene = "playback" /\ Idle /\ pbs.running) => rec.playing

\* C36: every captured frame of the recording in progress holds a snapshot for
\* exactly the universes of the recording's metadata universe list.
C36_FramesCoverMetadataUniverses ==
    scene = "recorder" =>
        \A i \in 1..Len(Captured) :
            DOMAIN Captured[i].data
              = {UniverseStr[u] : u \in Range(rec.current_recording.metadata.universes)}

\* C37: a stop_recording that saves a recording, and returns the path it wrote,
\* writes to a path where no file was stored before, so no file of an earlier
\* session is overwritten.
C37_SessionsSavedToDistinctFiles ==
    [][(scene = "recorder" /\ Recorder_stop_recording_join /\ last'.ret \in DOMAIN files)
       => files[last'.ret].kind = "missing"]_vars

\* C38: the cursor moves only in a pass of the playback thread, a load or a seek.
\* A pass that delivers a frame delivers the frame at the cursor and moves the
\* cursor one frame on, so that without load and seek frames are delivered in
\* increasing index order, each once. The delivery hands every universe of the
\* frame to the callback: afterwards every buffer of the playback source whose
\* universe the frame holds has the frame's values, every other buffer is
\* unchanged, and no buffer has been created.
C38_FramesDeliveredInOrder ==
    [][scene = "playback" =>
         /\ rec'.playback_position # rec.playback_position
            => \/ last'.op = "Recorder.load_recording"
               \/ \E t \in DOMAIN pworkers : Playback_thread_loop(t)
         /\ \A t \in DOMAIN pworkers :
              (pworkers[t].pc = "loop" /\ Playback_thread_loop(t))
              => IF last'.op = "frame"
                 THEN LET frame == pworkers[t].frames[rec.playback_position + 1]
                      IN /\ rec'.playback_position = rec.playback_position + 1
                         /\ frame.frame = rec.playback_position
                         /\ DOMAIN pbs'.buffers = DOMAIN pbs.buffers
                         /\ \A u \in DOMAIN pbs.buffers :
                              pbs'.buffers[u] = IF UniverseStr[u] \in DOMAIN frame.data
                                                THEN frame.data[UniverseStr[u]]
                                                ELSE pbs.buffers[u]
                 ELSE /\ rec'.playback_position = rec.playback_position
                      /\ pbs' = pbs]_vars

\* C38 witness: the second frame of a recording has just been delivered after the
\* first, to a source that has a buffer for universe 1 and none for universe 0,
\* which the first frame holds.
C38_Witness ==
    /\ scene = "playback" /\ last = FrameEmitted(FALSE)
    /\ rec.playback_position = 2
    /\ DOMAIN pbs.buffers = {1}
    /\ pbs.buffers[1] = Fill(CHANNELS, 6)

====
